---- MODULE Spec2Model ----
(***************************************************************************)
(* Model of src/src/scheduler.rs: a Scheduler with two mutex-protected     *)
(* VecDeque<Task> (ready_fns, sleeping_fns), schedule() and run().         *)
(*                                                                         *)
(* Time is counted in clock ticks, TicksPerSec ticks to the second.  A     *)
(* Duration is a number of ticks; Duration::as_secs truncates to seconds.  *)
(* One thread calls schedule() some times and then run(); any number of    *)
(* other threads call schedule() at any moment.                            *)
(***************************************************************************)
EXTENDS Integers, Sequences, FiniteSets, TLC

\* ---------------------------------------------------------------- bounds
MaxTasks == 2
MaxTime == 2
MaxDelay == 2

\* One second, in clock ticks (Duration::as_secs counts whole seconds).
TicksPerSec == 2

TaskIds == 1..MaxTasks

\* Option<Duration>: None, or Some(d) with d in ticks.
None == [some |-> FALSE, d |-> 0]
Some(d) == [some |-> TRUE, d |-> d]
Delays == {None} \cup {Some(d) : d \in 0..MaxDelay}

VARIABLES
    tasks,        \* every Task constructed so far; a task's id is its index
    ready,        \* ready_fns: sequence of task ids
    sleeping,     \* sleeping_fns: sequence of task ids
    readyLock,    \* holder of the ready_fns mutex: "free" or "run"
    sleepLock,    \* holder of the sleeping_fns mutex: "free" or "run"
    poisoned,     \* the sleeping_fns mutex is poisoned
    clock,        \* the monotonic clock (Instant), in ticks
    pc,           \* position of the thread that calls run()
    cur,          \* run_active: the task popped for execution (0: none)
    task,         \* run_sleeping: the task popped for promotion (0: none)
    now,          \* run_sleeping: the Instant taken at line 80
    wakeAt,       \* run_sleeping: the clock value that ends thread::sleep
    failure,      \* why run() panicked: "none", "callback", "overflow"
    executed,     \* the tasks whose callback was invoked, in order
    lost,         \* the tasks dropped without their callback being invoked
    atStart,      \* how many tasks had been constructed when run() was called
    atCheck,      \* what sleeping_fns held when line 102 last found ready_fns empty
    concurrent,   \* another thread pushed a task after run() was called
    blocked,      \* the tasks of other threads' schedule() calls blocked in lock()
    failed        \* the tasks of other threads' schedule() calls that panicked

vars == <<tasks, ready, sleeping, readyLock, sleepLock, poisoned, clock, pc,
          cur, task, now, wakeAt, failure, executed, lost, atStart,
          atCheck, concurrent, blocked, failed>>

schedVars == <<tasks, ready, sleeping>>
runLocals == <<cur, task, now, wakeAt>>
histVars == <<executed, lost, atStart, atCheck, concurrent>>
extVars == <<blocked, failed>>
lockVars == <<readyLock, sleepLock, poisoned>>

\* ------------------------------------------------------------- helpers
Range(s) == {s[i] : i \in 1..Len(s)}

IsPrefix(s, t) == Len(s) <= Len(t) /\ s = SubSeq(t, 1, Len(s))

\* A faulty push_back: the task is put at the front (push_front).
push_back_AtFront(q, t) == <<t>> \o q

\* VecDeque::push_back
push_back(q, t) == Append(q, t)

\* A faulty pop_front: the front is read and left in the deque (front()).
pop_front_Keep(q) == q

\* VecDeque::pop_front: the deque that is left (the front is Head(q))
pop_front(q) == Tail(q)

\* Duration::as_secs
as_secs(d) == d \div TicksPerSec

\* Task::new, with the instant of the schedule call of a task that has a
\* delay, and whether a callback run by run() made the call.
NewTask(expires, fromCallback) ==
    [expires |-> expires,
     subAt |-> IF expires.some THEN clock ELSE 0,
     fromCallback |-> fromCallback]

\* ---------------------------------------------------------------- Init
\* Scheduler::new(): two empty deques, both locks free.
Init ==
    /\ tasks = << >>
    /\ ready = << >>
    /\ sleeping = << >>
    /\ readyLock = "free"
    /\ sleepLock = "free"
    /\ poisoned = FALSE
    /\ clock = 0
    /\ pc = "idle"
    /\ cur = 0
    /\ task = 0
    /\ now = 0
    /\ wakeAt = 0
    /\ failure = "none"
    /\ executed = << >>
    /\ lost = {}
    /\ atStart = 0
    /\ atCheck = {}
    /\ concurrent = FALSE
    /\ blocked = {}
    /\ failed = {}

\* ------------------------------------------------------------- schedule
\* A faulty schedule: every task goes to sleeping_fns, delay or not.
ScheduleInto_AllSleeping(id, expires) ==
    /\ sleepLock = "free"
    /\ ~poisoned
    /\ sleeping' = push_back(sleeping, id)
    /\ UNCHANGED ready

\* Scheduler::schedule, the collection update of its two match arms: the
\* lock is taken, the task pushed at the back, the lock dropped.
ScheduleInto(id, expires) ==
    IF ~expires.some
    THEN /\ readyLock = "free"
         /\ ready' = push_back(ready, id)
         /\ UNCHANGED sleeping
    ELSE /\ sleepLock = "free"
         /\ ~poisoned
         /\ sleeping' = push_back(sleeping, id)
         /\ UNCHANGED ready

\* schedule() called by the thread that will call run(), before run().
Schedule(expires) ==
    /\ pc = "idle"
    /\ Len(tasks) < MaxTasks
    /\ tasks' = Append(tasks, NewTask(expires, FALSE))
    /\ ScheduleInto(Len(tasks) + 1, expires)
    /\ UNCHANGED <<lockVars, clock, pc, runLocals, failure, histVars, extVars>>

\* run() has returned or panicked.
Terminated == pc \in {"returned", "panicked"}

\* The passage of time, observed until run() ends.  The clock stops at
\* MaxTime unless run() is inside thread::sleep, which always ends.
Tick ==
    /\ ~Terminated
    /\ \/ clock < MaxTime
       \/ pc = "rs_sleep" /\ clock < wakeAt
    /\ clock' = clock + 1
    /\ UNCHANGED <<schedVars, lockVars, pc, runLocals, failure, histVars, extVars>>

\* ------------------------------------------------------------------ run
\* run() is called: the loop condition of line 102 is evaluated first.
RunStart ==
    /\ pc = "idle"
    /\ pc' = "cond_ready"
    /\ atStart' = Len(tasks)
    /\ UNCHANGED <<schedVars, lockVars, clock, runLocals, failure, executed,
                   lost, atCheck, concurrent, extVars>>

\* A faulty loop condition, while !is_empty("ready"): sleeping_fns is not
\* looked at.
WhenReadyEmpty_Return == "returned"

\* Line 102: with ready_fns empty, || evaluates !is_empty("sleep").
WhenReadyEmpty == "cond_sleep"

\* Line 102, !is_empty("ready"): true enters the body, false evaluates the
\* right operand of ||.
CondReady ==
    /\ pc = "cond_ready"
    /\ readyLock = "free"
    /\ pc' = IF ready # << >> THEN "body" ELSE WhenReadyEmpty
    /\ atCheck' = IF ready # << >> THEN {} ELSE Range(sleeping)
    /\ UNCHANGED <<schedVars, lockVars, clock, runLocals, failure, executed,
                   lost, atStart, concurrent, extVars>>

\* Line 102, !is_empty("sleep"): false ends the loop and run() returns.
CondSleep ==
    /\ pc = "cond_sleep"
    /\ sleepLock = "free"
    /\ ~poisoned
    /\ pc' = IF sleeping # << >> THEN "body" ELSE "returned"
    /\ atCheck' = IF sleeping # << >> THEN {} ELSE atCheck
    /\ UNCHANGED <<schedVars, lockVars, clock, runLocals, failure, executed,
                   lost, atStart, concurrent, extVars>>

\* A faulty loop body: run_sleeping() is called without looking at
\* ready_fns.
BodyCheck_AlwaysSleeping ==
    /\ pc = "body"
    /\ readyLock = "free"
    /\ pc' = "rs_lock"
    /\ UNCHANGED <<schedVars, lockVars, clock, runLocals, failure, histVars, extVars>>

\* Line 103, if is_empty("ready") { run_sleeping() }; then run_active().
BodyCheck ==
    /\ pc = "body"
    /\ readyLock = "free"
    /\ pc' = IF ready = << >> THEN "rs_lock" ELSE "ra_lock"
    /\ UNCHANGED <<schedVars, lockVars, clock, runLocals, failure, histVars, extVars>>

\* Line 77: run_sleeping takes the sleeping_fns lock.
RsLock ==
    /\ pc = "rs_lock"
    /\ sleepLock = "free"
    /\ ~poisoned
    /\ sleepLock' = "run"
    /\ pc' = "rs_pop"
    /\ UNCHANGED <<schedVars, readyLock, poisoned, clock, runLocals, failure,
                   histVars, extVars>>

\* Lines 78-80: pop_front; a task with a delay is kept and Instant::now()
\* taken; a task without one is dropped at the end of the if-let.
RsPop ==
    /\ pc = "rs_pop"
    /\ IF sleeping = << >>
       THEN /\ pc' = "rs_unlock"
            /\ UNCHANGED <<sleeping, task, now, lost>>
       ELSE /\ sleeping' = pop_front(sleeping)
            /\ IF tasks[Head(sleeping)].expires.some
               THEN /\ task' = Head(sleeping)
                    /\ now' = clock
                    /\ pc' = "rs_elapsed"
                    /\ UNCHANGED lost
               ELSE /\ lost' = lost \cup {Head(sleeping)}
                    /\ pc' = "rs_unlock"
                    /\ UNCHANGED <<task, now>>
    /\ UNCHANGED <<tasks, ready, lockVars, clock, cur, wakeAt, failure,
                   executed, atStart, atCheck, concurrent, extVars>>

\* Line 82: thread::sleep(delta) is called only for a delta of a whole
\* second or more.
MustSleep(delta) == as_secs(delta) > 0

\* Lines 81-82: delta = expires - now.elapsed().  Duration's subtraction
\* panics when the result would be negative; the panic unwinds run(),
\* drops the popped task and poisons the sleeping_fns mutex.
RsElapsed ==
    /\ pc = "rs_elapsed"
    /\ LET expires == tasks[task].expires.d
           elapsed == clock - now
           delta == expires - elapsed
       IN IF expires < elapsed
          THEN /\ pc' = "panicked"
               /\ failure' = "overflow"
               /\ lost' = lost \cup {task}
               /\ task' = 0
               /\ now' = 0
               /\ sleepLock' = "free"
               /\ poisoned' = TRUE
               /\ UNCHANGED wakeAt
          ELSE /\ pc' = IF MustSleep(delta) THEN "rs_sleep" ELSE "rs_push"
               /\ wakeAt' = IF MustSleep(delta) THEN clock + delta ELSE wakeAt
               /\ UNCHANGED <<failure, lost, task, now, sleepLock, poisoned>>
    /\ UNCHANGED <<schedVars, readyLock, clock, cur, executed,
                   atStart, atCheck, concurrent, extVars>>

\* Line 83: thread::sleep returns once delta has passed.
RsSleep ==
    /\ pc = "rs_sleep"
    /\ clock >= wakeAt
    /\ pc' = "rs_push"
    /\ UNCHANGED <<schedVars, lockVars, clock, runLocals, failure, histVars, extVars>>

\* Lines 85-87: the ready_fns lock is taken inside the sleeping_fns lock,
\* the task pushed at the back of ready_fns, the ready_fns lock dropped.
RsPush ==
    /\ pc = "rs_push"
    /\ readyLock = "free"
    /\ ready' = push_back(ready, task)
    /\ task' = 0
    /\ now' = 0
    /\ wakeAt' = 0
    /\ pc' = "rs_unlock"
    /\ UNCHANGED <<tasks, sleeping, lockVars, clock, cur, failure, histVars, extVars>>

\* A faulty run_sleeping: the sleeping_fns guard is never released.
RsUnlock_Keep ==
    /\ pc = "rs_unlock"
    /\ pc' = "ra_lock"
    /\ UNCHANGED <<schedVars, lockVars, clock, runLocals, failure, histVars, extVars>>

\* Line 90: the sleeping_fns lock is dropped; run_active() follows (106).
RsUnlock ==
    /\ pc = "rs_unlock"
    /\ sleepLock' = "free"
    /\ pc' = "ra_lock"
    /\ UNCHANGED <<schedVars, readyLock, poisoned, clock, runLocals, failure,
                   histVars, extVars>>

\* Lines 94 and 98: run_active takes the ready_fns lock.
RaLock ==
    /\ pc = "ra_lock"
    /\ readyLock = "free"
    /\ readyLock' = "run"
    /\ pc' = "ra_pop"
    /\ UNCHANGED <<schedVars, sleepLock, poisoned, clock, runLocals, failure,
                   histVars, extVars>>

\* A faulty run_active: the guard is not dropped before the callback.
LockDuringCallback_Held == "run"

\* The holder of the ready_fns lock while a callback runs (line 96 drops
\* the guard before line 97).
LockDuringCallback == "free"

\* Lines 95-96: while let Some(task) = pop_front(): the lock is dropped and
\* the callback invoked; None ends run_active and the loop of run() goes on.
RaPop ==
    /\ pc = "ra_pop"
    /\ IF ready = << >>
       THEN /\ readyLock' = "free"
            /\ pc' = "cond_ready"
            /\ UNCHANGED <<ready, cur>>
       ELSE /\ cur' = Head(ready)
            /\ ready' = pop_front(ready)
            /\ readyLock' = LockDuringCallback
            /\ pc' = "callback"
    /\ UNCHANGED <<tasks, sleeping, sleepLock, poisoned, clock, task, now,
                   wakeAt, failure, histVars, extVars>>

\* Line 97: the callback runs and returns.
CallbackReturn ==
    /\ pc = "callback"
    /\ executed' = Append(executed, cur)
    /\ cur' = 0
    /\ pc' = "ra_lock"
    /\ UNCHANGED <<schedVars, lockVars, clock, task, now, wakeAt, failure,
                   lost, atStart, atCheck, concurrent, extVars>>

\* Line 97: the callback calls schedule() with a new task and returns (the
\* countdown and countup workloads of lines 117-139).
CallbackSchedule(expires) ==
    /\ pc = "callback"
    /\ Len(tasks) < MaxTasks
    /\ tasks' = Append(tasks, NewTask(expires, TRUE))
    /\ ScheduleInto(Len(tasks) + 1, expires)
    /\ executed' = Append(executed, cur)
    /\ cur' = 0
    /\ pc' = "ra_lock"
    /\ UNCHANGED <<lockVars, clock, task, now, wakeAt, failure, lost,
                   atStart, atCheck, concurrent, extVars>>

\* A faulty run_active: the panic is caught and the loop goes on.
AfterCallbackPanic_Continue == "ra_lock"

\* The position of run() after a callback panicked: nothing catches it.
AfterCallbackPanic == "panicked"

\* Line 97: the callback panics; the panic unwinds run().
CallbackPanic ==
    /\ pc = "callback"
    /\ executed' = Append(executed, cur)
    /\ cur' = 0
    /\ pc' = AfterCallbackPanic
    /\ failure' = "callback"
    /\ UNCHANGED <<schedVars, lockVars, clock, task, now, wakeAt, lost,
                   atStart, atCheck, concurrent, extVars>>

\* ------------------------------------------------------- other threads
\* The lock that schedule() needs for a task is not available.
LockBusy(expires) ==
    IF expires.some THEN sleepLock # "free" ELSE readyLock # "free"

\* schedule() with its lock available: the task is pushed and the call
\* returns, or lock().unwrap() panics on the poisoned sleeping_fns mutex
\* (line 51) and the task is dropped.
ExtEnter(id, expires) ==
    IF expires.some /\ poisoned
    THEN /\ failed' = failed \cup {id}
         /\ UNCHANGED <<ready, sleeping, concurrent>>
    ELSE /\ ScheduleInto(id, expires)
         /\ concurrent' = (concurrent \/ pc # "idle")
         /\ UNCHANGED failed

\* Another thread constructs a task and calls schedule(); it blocks in
\* lock() while the thread of run() holds the lock.
ExtCall(expires) ==
    /\ Len(tasks) < MaxTasks
    /\ tasks' = Append(tasks, NewTask(expires, FALSE))
    /\ IF LockBusy(expires)
       THEN /\ blocked' = blocked \cup {Len(tasks) + 1}
            /\ UNCHANGED <<ready, sleeping, concurrent, failed>>
       ELSE /\ ExtEnter(Len(tasks) + 1, expires)
            /\ UNCHANGED blocked
    /\ UNCHANGED <<lockVars, clock, pc, runLocals, failure, executed, lost,
                   atStart, atCheck>>

\* A blocked schedule() gets the lock.
ExtResume(id) ==
    /\ id \in blocked
    /\ ~LockBusy(tasks[id].expires)
    /\ blocked' = blocked \ {id}
    /\ ExtEnter(id, tasks[id].expires)
    /\ UNCHANGED <<tasks, lockVars, clock, pc, runLocals, failure, executed,
                   lost, atStart, atCheck>>

RunStep ==
    \/ RunStart
    \/ CondReady
    \/ CondSleep
    \/ BodyCheck
    \/ RsLock
    \/ RsPop
    \/ RsElapsed
    \/ RsSleep
    \/ RsPush
    \/ RsUnlock
    \/ RaLock
    \/ RaPop
    \/ CallbackReturn
    \/ \E e \in Delays : CallbackSchedule(e)
    \/ CallbackPanic

Next ==
    \/ \E e \in Delays : Schedule(e)
    \/ RunStep
    \/ Tick
    \/ \E e \in Delays : ExtCall(e)
    \/ \E id \in TaskIds : ExtResume(id)

Spec == Init /\ [][Next]_vars

\* The scheduling the code guarantees: the thread inside run() keeps taking
\* steps and the clock keeps advancing while it sleeps.
FairSpec == Spec /\ WF_vars(RunStep) /\ WF_vars(Tick)

\* ------------------------------------------------------------- properties
Created == 1..Len(tasks)

Delayed(t) == tasks[t].expires.some

\* The absolute expiry of a task submitted with a delay.
Expiry(t) == tasks[t].subAt + tasks[t].expires.d

\* run() has been called and has neither returned nor panicked.
Running == pc # "idle" /\ ~Terminated

Queued == Range(ready) \cup Range(sleeping)

NoDuplicates(s) == \A i, j \in 1..Len(s) : i # j => s[i] # s[j]

\* How many times t occurs in s.
Occurrences(s, t) == Cardinality({i \in 1..Len(s) : s[i] = t})

\* C1: of two tasks that are both in sleeping, the one with the strictly
\* smaller absolute expiry leaves sleeping (is promoted) first, whatever the
\* order of submission: no step removes the later-expiring one and leaves
\* the earlier-expiring one in sleeping.
C1_ExpiryOrdering ==
    [][\A t1, t2 \in Range(sleeping) :
          Expiry(t1) < Expiry(t2)
              => ~(t2 \notin Range(sleeping') /\ t1 \in Range(sleeping'))]_vars

\* C2: a task submitted with a delay d > 0 is not in ready, executing or
\* executed before d has elapsed since its schedule call.
C2_ReadyNeverUnexpired ==
    \A t \in Range(ready) \cup ({cur} \ {0}) :
        (Delayed(t) /\ tasks[t].expires.d > 0) => clock >= Expiry(t)

BothEmpty == ready = << >> /\ sleeping = << >>

\* C3: with no schedule call by another thread after run() was called,
\* run() has returned only with ready and sleeping both empty; no step
\* returns from run() while a collection holds a task; and a loop condition
\* evaluated with both collections empty leads to the return and not into
\* the loop body.
C3_TerminationExact ==
    /\ [](~concurrent /\ pc = "returned" => BothEmpty)
    /\ [][~concurrent' =>
            /\ (~BothEmpty /\ pc # "returned") => pc' # "returned"
            /\ (BothEmpty /\ pc = "cond_ready") => pc' \in {"cond_ready", "cond_sleep"}
            /\ (BothEmpty /\ pc = "cond_sleep") => pc' \in {"cond_sleep", "returned"}]_vars

C3_Witness ==
    /\ pc = "returned"
    /\ ~concurrent
    /\ Len(executed) = MaxTasks
    /\ \E t \in Range(executed) : Delayed(t)
    /\ \E t \in Range(executed) : tasks[t].fromCallback

\* C4: the callback of a task is invoked at most once, and a task popped
\* for execution is never again in ready or in sleeping.
C4_NoDoubleExecution ==
    /\ NoDuplicates(executed)
    /\ cur \notin Range(executed)
    /\ (Range(executed) \cup {cur}) \cap Queued = {}

C4_Witness ==
    /\ Len(executed) = MaxTasks
    /\ concurrent
    /\ \E t \in Range(executed) : Delayed(t)

\* The delay-less tasks submitted before run() was called, in the order of
\* their schedule calls (a task's id counts the calls).
DelaylessBeforeRun(t) == t <= atStart /\ ~Delayed(t)

SubmittedBeforeRun == SelectSeq([i \in 1..atStart |-> i], DelaylessBeforeRun)

\* C5: the delay-less tasks submitted before run() are invoked in the order
\* of their submission: at every moment those invoked so far are the first
\* ones of that order, and when run() has returned all of them were invoked.
C5_FifoOrder ==
    LET invoked == SelectSeq(executed, DelaylessBeforeRun)
    IN /\ IsPrefix(invoked, SubmittedBeforeRun)
       /\ pc = "returned" => invoked = SubmittedBeforeRun

C5_Witness ==
    /\ pc = "returned"
    /\ Len(SubmittedBeforeRun) >= 2
    /\ SelectSeq(executed, DelaylessBeforeRun) = SubmittedBeforeRun

\* C6: when run() has returned, every delay-less task that a callback
\* submitted has had its callback invoked.
C6_Resubmission ==
    pc = "returned" =>
        \A t \in Created :
            (tasks[t].fromCallback /\ ~Delayed(t)) => t \in Range(executed)

C6_Witness ==
    /\ pc = "returned"
    /\ \E t \in Range(executed) : tasks[t].fromCallback /\ ~Delayed(t)

\* C7: a task that is in ready or in sleeping while run() executes has its
\* callback invoked eventually, unless a callback fails.
C7_NoStarvation ==
    \A t \in TaskIds :
        (Running /\ t \in Queued) ~> (t \in Range(executed) \/ failure = "callback")

\* C8: no schedule call fails, and the promotion of a task submitted with
\* delay zero never makes run() panic.
C8_ZeroDelayTotal ==
    /\ failed = {}
    /\ \A t \in Created : tasks[t].expires = Some(0) => t \notin lost

\* C9: once a callback has panicked run() has ended with that failure, no
\* further callback is invoked, and the tasks in ready and in sleeping stay
\* there in their order; the step of the failure itself consumes only the
\* failing task.
C9_CallbackFailure ==
    /\ [](failure = "callback" => pc = "panicked" /\ cur = 0)
    /\ [][/\ failure = "callback" =>
                /\ executed' = executed
                /\ IsPrefix(ready, ready')
                /\ IsPrefix(sleeping, sleeping')
          /\ (failure # "callback" /\ failure' = "callback") =>
                /\ executed' = Append(executed, cur)
                /\ ready' = ready
                /\ sleeping' = sleeping]_vars

C9_Witness ==
    /\ failure = "callback"
    /\ pc = "panicked"
    /\ Queued # {}

\* The tasks whose schedule call has returned.
Submitted == Created \ (blocked \cup failed)

\* In how many places a task is: ready, sleeping, in promotion, executing,
\* executed.
Places(t) ==
    Occurrences(ready, t) + Occurrences(sleeping, t) + Occurrences(executed, t)
        + (IF task = t THEN 1 ELSE 0) + (IF cur = t THEN 1 ELSE 0)

\* C10: every submitted task is in exactly one place: once in ready, once in
\* sleeping, in promotion, executing, or executed; so the submitted tasks are
\* as many as those five together.
C10_SingleOwnership ==
    /\ \A t \in Submitted : Places(t) = 1
    /\ Cardinality(Submitted) =
          Len(ready) + Len(sleeping) + Len(executed)
              + (IF task # 0 THEN 1 ELSE 0) + (IF cur # 0 THEN 1 ELSE 0)

\* run() is about to pop a sleeping task, or holds one it has not yet pushed
\* into ready (lines 77-86).
Promoting == pc \in {"rs_lock", "rs_pop", "rs_elapsed", "rs_sleep", "rs_push"}

\* The tasks submitted with a delay that have been promoted.
Promoted ==
    {t \in Created : Delayed(t) /\ t \in Range(ready) \cup {cur} \cup Range(executed)}

\* s holds a before b.
Before(s, a, b) ==
    \E i, j \in 1..Len(s) : i < j /\ s[i] = a /\ s[j] = b

\* C11: with no schedule call by another thread after run() was called,
\* run() pops, waits for and promotes a sleeping task only while ready is
\* empty, and once a task submitted with a delay has been promoted every
\* delay-less task submitted before run() has been invoked, before it.
C11_ReadyBeforeDelayed ==
    ~concurrent =>
        /\ Promoting => ready = << >>
        /\ \A d \in Promoted : \A t \in Range(SubmittedBeforeRun) :
              /\ t \in Range(executed)
              /\ d \in Range(executed) => Before(executed, t, d)

C11_Witness ==
    /\ ~concurrent
    /\ atStart = 2
    /\ Delayed(1)
    /\ ~Delayed(2)
    /\ executed = <<2, 1>>

\* C12: with finitely many tasks submitted (before run() and by callbacks)
\* and no callback failing, run() returns eventually, and it has returned
\* with both collections empty and every submitted task invoked exactly
\* once.
C12_Terminates ==
    /\ Running ~> (pc = "returned" \/ failure = "callback" \/ concurrent)
    /\ [](pc = "returned" /\ ~concurrent =>
             /\ BothEmpty
             /\ \A t \in Submitted : Occurrences(executed, t) = 1)

\* C13: while run() is inside thread::sleep it holds neither lock, and no
\* schedule call of another thread is waiting for a lock.
C13_NoLockWhileSleeping ==
    pc = "rs_sleep" =>
        /\ sleepLock = "free"
        /\ readyLock = "free"
        /\ blocked = {}

\* C14: run() blocks for the remaining time only: a sleep ends at the
\* absolute expiry of the task (submission instant + delay), and a task
\* that is pushed into ready without a sleep has reached that expiry.
C14_RemainingTimeOnly ==
    /\ pc = "rs_sleep" => wakeAt = Expiry(task)
    /\ (pc = "rs_push" /\ wakeAt = 0) => clock >= Expiry(task)

\* C15: while a callback runs the thread of run() holds neither lock, so
\* a schedule call made by the callback, with or without a delay, finds the
\* lock it needs available.
C15_NoLockInCallback ==
    pc = "callback" =>
        /\ readyLock = "free"
        /\ sleepLock = "free"
        /\ \A e \in Delays : ~LockBusy(e)
        /\ ~poisoned

C15_Witness ==
    /\ pc = "callback"
    /\ Delayed(cur)
    /\ tasks[cur].fromCallback

\* The thread of run() is waiting for a lock.
RunBlocked ==
    \/ pc \in {"cond_ready", "body", "ra_lock", "rs_push"} /\ readyLock # "free"
    \/ pc \in {"cond_sleep", "rs_lock"} /\ sleepLock # "free"
    \/ pc = "callback" /\ (readyLock # "free" \/ sleepLock # "free")

\* C16: the sleeping lock is never requested with the ready lock held (the
\* ready lock is held only around a pop of run_active, the sleeping lock
\* only inside run_sleeping, where the ready lock is taken within it); the
\* thread of run() never waits for a lock, and when run() has ended both
\* locks are free, so the threads blocked in schedule() are never stuck.
C16_LockOrder ==
    /\ pc \in {"cond_sleep", "rs_lock", "callback"} => readyLock = "free"
    /\ readyLock = "run" => pc = "ra_pop"
    /\ sleepLock = "run" => pc \in {"rs_pop", "rs_elapsed", "rs_sleep", "rs_push", "rs_unlock"}
    /\ ~RunBlocked
    /\ Terminated => readyLock = "free" /\ sleepLock = "free"

C16_Witness ==
    /\ pc = "rs_push"
    /\ blocked # {}
    /\ sleepLock = "run"

\* C17: a step that removes from sleeping removes its front only, keeps the
\* rest in order and holds that task for promotion; the task held for
\* promotion leaves only by being appended at the back of ready, with
\* sleeping untouched; and run_sleeping is entered only when ready was
\* found empty, that is after ready has been drained.
C17_OnePromotionPerStep ==
    [][/\ Len(sleeping') < Len(sleeping) =>
             /\ sleeping' = Tail(sleeping)
             /\ task' = Head(sleeping)
             /\ ready' = ready
       /\ (task # 0 /\ task' # task) =>
             /\ task' = 0
             /\ ready' = Append(ready, task)
             /\ sleeping' = sleeping
       /\ (pc # "rs_lock" /\ pc' = "rs_lock") => ready = << >>]_vars

C19_ConsistentExit ==
    /\ pc = "cond_sleep" => atCheck \subseteq Range(sleeping)
    /\ pc = "returned" =>
          /\ atCheck = {}
          /\ lost = {}
          /\ \A t \in Submitted \ Range(executed) :
                /\ t > atStart
                /\ ~tasks[t].fromCallback
                /\ t \in Range(ready) \cup Range(sleeping)

C19_Witness ==
    /\ pc = "returned"
    /\ concurrent
    /\ executed # << >>
    /\ ready # << >>
    /\ atCheck = {}

\* The schedule() call for task t completes in this step: the task is new
\* or its call was blocked, and afterwards it is neither blocked nor
\* dropped by a panic of lock().unwrap().
ScheduleCompletes(t) ==
    /\ t > Len(tasks) \/ t \in blocked
    /\ t \notin blocked'
    /\ t \notin failed'

====
